---- MODULE Spec2Model ----
(***************************************************************************)
(* File: a handle bound to a filesystem path (src/src/file.py).            *)
(*                                                                         *)
(* A path string is a sequence of characters.  The characters that decide  *)
(* the code's behaviour are "/" and "~"; every other character of a name   *)
(* is one token ("home", "u", "d", ...).  A name of the filesystem (a      *)
(* component) is a non-empty run of non-slash characters, so a location is *)
(* a sequence of such runs, e.g. /home/u/f is                              *)
(* << <<"home">>, <<"u">>, <<"f">> >>.  A directory literally named "~"    *)
(* is the component <<"~">>.  File content is a sequence of characters in  *)
(* which "\n" is the line terminator.                                      *)
(***************************************************************************)
EXTENDS Integers, Sequences, FiniteSets, TLC

VARIABLES dirs,     \* the locations that are directories
          files,    \* location -> content, for the regular files
          noread,   \* the regular files the process may not read
          cwd,      \* the process's working directory (a location), or Gone
          path,     \* File.path
          opened,   \* file objects an operation opened and did not close
          last,     \* the last call on the handle and how it ended
          log,      \* the append calls made since the path was absent
          steps     \* how many calls and outside changes have happened

vars == <<dirs, files, noread, cwd, path, opened, last, log, steps>>

Slash == "/"
Tilde == "~"
NL == "\n"

\* the number of calls and outside changes a run is followed for
MaxSteps == 4
\* the length a file's content may reach by appending
MaxContent == 5
\* the number of lines of the files whose lines are read
MaxLines == 5
\* the number of file objects left open that are counted
MaxOpen == 2

Tick == steps < MaxSteps /\ steps' = steps + 1

\* _username: the login name of the process owner, one token
username == <<"u">>

\* '/home/{0}'.format(_username)
HomeString == <<Slash, "home", Slash>> \o username

Last(s) == s[Len(s)]
Front(s) == SubSeq(s, 1, Len(s) - 1)

---------------------------------------------------------------------------
(* Strings: str.replace, posixpath.basename/dirname/join *)

\* File.__fix_path: path.replace('~', '/home/<username>'), every occurrence
RECURSIVE fix_path(_)
fix_path(p) ==
  IF p = <<>> THEN <<>>
  ELSE (IF Head(p) = Tilde THEN HomeString ELSE <<Head(p)>>) \o fix_path(Tail(p))

HasChar(p, c) == \E i \in 1..Len(p) : p[i] = c

\* p.rfind('/') + 1
LastSlash(p) ==
  IF HasChar(p, Slash) THEN CHOOSE i \in 1..Len(p) :
       p[i] = Slash /\ \A j \in (i+1)..Len(p) : p[j] # Slash
  ELSE 0

RECURSIVE rstrip(_)
rstrip(p) == IF p # <<>> /\ Last(p) = Slash THEN rstrip(Front(p)) ELSE p

basename(p) == SubSeq(p, LastSlash(p) + 1, Len(p))

dirname(p) ==
  LET head == SubSeq(p, 1, LastSlash(p))
  IN IF head # <<>> /\ (\E i \in 1..Len(head) : head[i] # Slash)
       THEN rstrip(head) ELSE head

isabs(p) == p # <<>> /\ Head(p) = Slash

join(a, b) ==
  IF isabs(b) THEN b
  ELSE IF a = <<>> \/ Last(a) = Slash THEN a \o b
  ELSE a \o <<Slash>> \o b

\* new.startswith('/home')
startswith_home(p) == Len(p) >= 2 /\ p[1] = Slash /\ p[2] \in {"home"}

\* The components of a path string: the maximal runs of non-slash characters
RECURSIVE Split(_, _)
Split(p, run) ==
  IF p = <<>> THEN (IF run = <<>> THEN <<>> ELSE <<run>>)
  ELSE IF Head(p) = Slash
         THEN (IF run = <<>> THEN <<>> ELSE <<run>>) \o Split(Tail(p), <<>>)
         ELSE Split(Tail(p), Append(run, Head(p)))

\* The string of a location: "/" + "/".join(components)
RECURSIVE Unsplit(_)
Unsplit(loc) ==
  IF loc = <<>> THEN <<>>
  ELSE <<Slash>> \o Head(loc) \o Unsplit(Tail(loc))

---------------------------------------------------------------------------
(* The filesystem, as the calls of the os module see it.  F is a record    *)
(* [dirs, files, noread, cwd].                                             *)

Root == <<>>
\* the working directory of a process whose directory was removed
Gone == << <<>> >>

Parent(loc) == Front(loc)

\* The location a path string names, NoLoc if it names none
NoLoc == << <<>>, <<>> >>
Loc(F, p) ==
  IF p = <<>> THEN NoLoc
  ELSE IF isabs(p) THEN Split(p, <<>>)
  ELSE IF F.cwd = Gone THEN NoLoc
  ELSE F.cwd \o Split(p, <<>>)

IsDirLoc(F, l) == l \in F.dirs
IsFileLoc(F, l) == l \in DOMAIN F.files

\* os.path.isfile / isdir / exists
isfile(F, p) == IsFileLoc(F, Loc(F, p))
isdir(F, p) == IsDirLoc(F, Loc(F, p))
exists(F, p) == isfile(F, p) \/ isdir(F, p)

\* os.access(path, os.R_OK)
access_R_OK(F, p) ==
  \/ isdir(F, p)
  \/ isfile(F, p) /\ Loc(F, p) \notin F.noread

\* os.getcwd(): the string, when the directory still exists
getcwd(F) == IF F.cwd = Root THEN <<Slash>> ELSE Unsplit(F.cwd)
getcwd_fails(F) == F.cwd = Gone


FS(d, f, n, c) == [dirs |-> d, files |-> f, noread |-> n, cwd |-> c]

Done(F) == [err |-> "", F |-> F]
Fail(e, F) == [err |-> e, F |-> F]

HasChildren(F, l) ==
  \E k \in F.dirs \cup DOMAIN F.files : k # Root /\ Parent(k) = l

\* the file table without location l
DropFile(f, l) == [k \in DOMAIN f \ {l} |-> f[k]]
\* the file table with content c at location l
PutFile(f, l, c) == [k \in DOMAIN f \cup {l} |-> IF k = l THEN c ELSE f[k]]

\* os.mkdir(name)
mkdir_at(F, l) ==
  IF l = NoLoc THEN Fail("ENOENT", F)
  ELSE IF IsDirLoc(F, l) \/ IsFileLoc(F, l) THEN Fail("EEXIST", F)
  ELSE IF ~IsDirLoc(F, Parent(l)) THEN Fail("ENOENT", F)
  ELSE Done([F EXCEPT !.dirs = @ \cup {l}])

mkdir(F, name) == mkdir_at(F, Loc(F, name))

\* posixpath.split(p)
split(p) == [head |-> dirname(p), tail |-> basename(p)]

\* head, tail = split(name); if not tail: head, tail = split(head)
split_leaf(p) == IF basename(p) = <<>> THEN split(dirname(p)) ELSE split(p)

makedirs_leaf(r, name) ==
  IF r.err \notin {"", "EEXIST"} THEN r ELSE mkdir(r.F, name)

\* a makedirs that creates the leaf only
makedirs_single(F, name) == mkdir(F, name)

\* os.makedirs(name) of Python 2: the missing ancestors first, an EEXIST of
\* theirs ignored, then the leaf
RECURSIVE makedirs(_, _)
makedirs_head(F, s) ==
  IF s.head # <<>> /\ s.tail # <<>> /\ ~exists(F, s.head)
    THEN makedirs(F, s.head) ELSE Done(F)

makedirs(F, name) == makedirs_leaf(makedirs_head(F, split_leaf(name)), name)

\* open(path, 'w') and open(path, 'a'): the file is created when absent,
\* and 'w' truncates it
open_write_at(F, l, mode) ==
  IF l = NoLoc THEN Fail("ENOENT", F)
  ELSE IF IsDirLoc(F, l) THEN Fail("EISDIR", F)
  ELSE IF IsFileLoc(F, l)
    THEN (IF mode = "w" THEN Done([F EXCEPT !.files = PutFile(@, l, <<>>)])
          ELSE Done(F))
  ELSE IF ~IsDirLoc(F, Parent(l)) THEN Fail("ENOENT", F)
  ELSE Done([F EXCEPT !.files = PutFile(@, l, <<>>)])

open_write(F, p, mode) == open_write_at(F, Loc(F, p), mode)

\* os.rename(old, new), old a regular file
os_rename_at(F, lo, ln) ==
  IF lo = NoLoc \/ ln = NoLoc \/ ~IsFileLoc(F, lo) THEN Fail("ENOENT", F)
  ELSE IF lo = ln THEN Done(F)
  ELSE IF IsDirLoc(F, ln) THEN Fail("EISDIR", F)
  ELSE IF ~IsDirLoc(F, Parent(ln)) THEN Fail("ENOENT", F)
  ELSE Done([F EXCEPT
         !.files = PutFile(DropFile(@, lo), ln, F.files[lo]),
         !.noread = IF lo \in F.noread THEN (@ \ {lo}) \cup {ln}
                    ELSE @ \ {lo, ln}])

os_rename(F, old, new) == os_rename_at(F, Loc(F, old), Loc(F, new))

\* os.rmdir(name): an empty directory other than the root; removing the
\* working directory leaves the process without one
rmdir_at(F, l) ==
  IF l = NoLoc \/ ~IsDirLoc(F, l) THEN Fail("ENOENT", F)
  ELSE IF l = Root THEN Fail("EBUSY", F)
  ELSE IF HasChildren(F, l) THEN Fail("ENOTEMPTY", F)
  ELSE Done([F EXCEPT !.dirs = @ \ {l},
                      !.cwd = IF @ = l THEN Gone ELSE @])

rmdir(F, name) == rmdir_at(F, Loc(F, name))

\* the loop of os.removedirs: rmdir up the heads until one fails
RECURSIVE prune(_, _)
prune_next(r, head) == IF r.err # "" THEN r.F ELSE prune(r.F, split_leaf(head))

prune(F, s) ==
  IF s.head # <<>> /\ s.tail # <<>> THEN prune_next(rmdir(F, s.head), s.head)
  ELSE F

\* os.removedirs(name), its error swallowed by os.renames
removedirs(F, name) == prune_next(rmdir(F, name), name)

renames_prune(r, old) ==
  IF r.err # "" THEN r
  ELSE IF dirname(old) # <<>> /\ basename(old) # <<>>
    THEN Done(removedirs(r.F, dirname(old)))
  ELSE r

renames_move(m, old, new) ==
  IF m.err # "" THEN m ELSE renames_prune(os_rename(m.F, old, new), old)

\* os.renames(old, new): makedirs of new's head, rename, removedirs of
\* old's head
renames(F, old, new) ==
  renames_move(IF dirname(new) # <<>> /\ basename(new) # <<>>
                    /\ ~exists(F, dirname(new))
                 THEN makedirs(F, dirname(new)) ELSE Done(F),
               old, new)

\* os.remove(path)
os_remove_at(F, l) ==
  IF ~IsFileLoc(F, l) THEN Fail("ENOENT", F)
  ELSE Done([F EXCEPT !.files = DropFile(@, l), !.noread = @ \ {l}])

os_remove(F, p) == os_remove_at(F, Loc(F, p))

---------------------------------------------------------------------------
(* Values handed to write and append, and str() of them *)

StrVal(s) == [kind |-> "str", s |-> s, n |-> 0]
IntVal(n) == [kind |-> "int", s |-> <<>>, n |-> n]
NoVal == [kind |-> "none", s |-> <<>>, n |-> 0]

Digit(d) == <<"0", "1", "2", "3", "4", "5", "6", "7", "8", "9">>[d + 1]

RECURSIVE Decimal(_)
Decimal(n) == IF n < 10 THEN <<Digit(n)>> ELSE Decimal(n \div 10) \o <<Digit(n % 10)>>

\* str(what)
Str(v) ==
  IF v.kind = "int"
    THEN (IF v.n < 0 THEN <<"-">> \o Decimal(-v.n) ELSE Decimal(v.n))
    ELSE v.s

---------------------------------------------------------------------------
(* The methods of File.  Each takes the filesystem F and the handle's path *)
(* p and returns how the call ended (res), the filesystem and the path     *)
(* after it.  res is "ok", one of the module's exceptions, or "OSError"    *)
(* for an error the os module raised.                                      *)

Out(r, F, p) == [res |-> r, F |-> F, path |-> p]
OutOs(r, p) == Out(IF r.err = "" THEN "ok" ELSE "OSError", r.F, p)

check_file_access_first(F, p) ==
  IF ~access_R_OK(F, p) THEN "NotAccessible"
  ELSE IF ~isfile(F, p) THEN "NotFound"
  ELSE "pass"

\* check_file: what the wrapper raises before the wrapped function runs
check_file(F, p) ==
  IF ~isfile(F, p) THEN "NotFound"
  ELSE IF ~access_R_OK(F, p) THEN "NotAccessible"
  ELSE "pass"

\* the wrapper: the wrapped function's outcome when the check passes
guarded(chk, F, p, body) == IF chk # "pass" THEN Out(chk, F, p) ELSE body

\* File.name
name(p) == basename(p)

\* a directory_path that is the working directory whatever the path
directory_path_cwd(F, p) == getcwd(F)

\* File.directory_path: os.path.dirname(self.path) or os.getcwd()
directory_path(F, p) == IF dirname(p) # <<>> THEN dirname(p) ELSE getcwd(F)
directory_path_fails(F, p) == dirname(p) = <<>> /\ getcwd_fails(F)

\* File.path_exists
path_exists(F, p) == exists(F, directory_path(F, p))

\* File.size
size(F, p) ==
  IF ~(isfile(F, p) /\ access_R_OK(F, p)) THEN 0 ELSE Len(F.files[Loc(F, p)])

CreateOut(r, F, rec) == [res |-> r, F |-> F, rec |-> rec]
CreateOs(o, rec) == CreateOut(IF o.err = "" THEN "ok" ELSE "OSError", o.F, rec)

\* File.create; rec counts the recursive calls made
RECURSIVE create(_, _, _, _)
create_retry(m, p, overwrite_policy, rec) ==
  IF m.err # "" THEN CreateOut("OSError", m.F, rec)
  ELSE create(m.F, p, overwrite_policy, rec + 1)

create(F, p, overwrite_policy, rec) ==
  IF isfile(F, p) /\ ~overwrite_policy THEN CreateOut("AlreadyExists", F, rec)
  ELSE IF directory_path_fails(F, p) THEN CreateOut("OSError", F, rec)
  ELSE IF path_exists(F, p) THEN CreateOs(open_write(F, p, "w"), rec)
  ELSE create_retry(makedirs(F, directory_path(F, p)), p, overwrite_policy, rec)

write_text_to(o, l, p, what) ==
  IF o.err # "" THEN Out("OSError", o.F, p)
  ELSE Out("ok", [o.F EXCEPT !.files[l] = @ \o Str(what) \o <<NL>>], p)

\* File.__write: open(path, mode), write(str(what)), write('\n')
write_text(F, p, what, mode) ==
  write_text_to(open_write(F, p, mode), Loc(F, p), p, what)

\* a write that opens the file to append, without creating it anew
write_appending(F, p, what) == write_text(F, p, what, "a")

write_after(c, p, what) ==
  IF c.res # "ok" THEN Out(c.res, c.F, p) ELSE write_text(c.F, p, what, "w")

\* File.write
write(F, p, what) == write_after(create(F, p, TRUE, 0), p, what)

\* an append that lets the FileAlreadyExists of create through
append_raising(c, p, what) ==
  IF c.res # "ok" THEN Out(c.res, c.F, p) ELSE write_text(c.F, p, what, "a")

append_after(c, p, what) ==
  IF c.res \notin {"ok", "AlreadyExists"} THEN Out(c.res, c.F, p)
  ELSE write_text(c.F, p, what, "a")

\* File.append: the FileAlreadyExists of create is swallowed
append(F, p, what) == append_after(create(F, p, FALSE, 0), p, what)

\* File.__update_path
update_path(F, p, new) ==
  IF ~startswith_home(new)
    THEN (IF getcwd_fails(F) THEN Out("OSError", F, p)
          ELSE Out("ok", F, join(getcwd(F), new)))
    ELSE Out("ok", F, new)

rename_update(r, p, new) ==
  IF r.err # "" THEN Out("OSError", r.F, p) ELSE update_path(r.F, p, new)

\* File.__rename
rename_to(F, p, new) == rename_update(renames(F, p, new), p, new)

\* temp_file = File(path=new); temp_file.is_file and not overwrite_policy
rename_probe(F, p, new, overwrite_policy) ==
  IF isfile(F, fix_path(new)) /\ ~overwrite_policy
    THEN Out("AlreadyExists", F, p)
    ELSE rename_to(F, p, new)

rename_body(F, p, n0, overwrite_policy) ==
  IF HasChar(n0, Slash) THEN rename_probe(F, p, n0, overwrite_policy)
  ELSE IF directory_path_fails(F, p) THEN Out("OSError", F, p)
  ELSE rename_probe(F, p, join(directory_path(F, p), n0), overwrite_policy)

\* File.rename
rename(F, p, new_name, overwrite_policy) ==
  guarded(check_file(F, p), F, p,
          rename_body(F, p, fix_path(new_name), overwrite_policy))

move_body(F, p, where, overwrite_policy) ==
  rename(F, p, IF isdir(F, where) THEN join(where, name(p)) ELSE where,
         overwrite_policy)

\* File.move
move(F, p, where, overwrite_policy) ==
  guarded(check_file(F, p), F, p,
          move_body(F, p, fix_path(where), overwrite_policy))

\* File.delete
delete(F, p) == guarded(check_file(F, p), F, p, OutOs(os_remove(F, p), p))

---------------------------------------------------------------------------
(* Reading: File.read, File.__iter__ and the properties built on it *)

\* the lines a file object yields: each ends after its "\n", the last one
\* at the end of the content
RECURSIVE Lines(_, _)
Lines(c, cur) ==
  IF c = <<>> THEN (IF cur = <<>> THEN <<>> ELSE <<cur>>)
  ELSE IF Head(c) = NL THEN <<Append(cur, NL)>> \o Lines(Tail(c), <<>>)
  ELSE Lines(Tail(c), Append(cur, Head(c)))

\* File.__iter__, run to its end
iter(F, p) == Lines(F.files[Loc(F, p)], <<>>)

\* fp.read(size)
fp_read(c, sz) == IF sz < 0 \/ sz >= Len(c) THEN c ELSE SubSeq(c, 1, sz)

\* the test of empty_lines: not line
not_line(line) == line = <<>>

\* File.total_lines: sum(1 for _ in self)
total_lines(F, p) == Len(iter(F, p))

\* File.empty_lines: sum(1 for line in self if not line)
empty_lines(F, p) ==
  Cardinality({i \in 1..total_lines(F, p) : not_line(iter(F, p)[i])})

\* File.non_empty_lines
non_empty_lines(F, p) == total_lines(F, p) - empty_lines(F, p)

\* a loop of get_line that counts the lines from 0
get_line_stop_from_0(lines, lno) ==
  IF \E i \in 1..Len(lines) : i - 1 = lno THEN lno + 1 ELSE 0

\* the loop of File.get_line over the lines: the index of the line it
\* breaks at, 0 when it runs to the end of the file
get_line_stop(lines, lno) ==
  IF \E i \in 1..Len(lines) : i = lno THEN lno ELSE 0

get_line_at(lines, stop) == IF stop = 0 THEN <<>> ELSE lines[stop]

\* File.get_line, the file passing check_file
get_line(F, p, lno) ==
  IF lno < 0 \/ lno > total_lines(F, p) THEN <<>>
  ELSE get_line_at(iter(F, p), get_line_stop(iter(F, p), lno))

-----
(* The state machine *)

Cur == FS(dirs, files, noread, cwd)

Call(op, res, str, ov, what, ret, num, arg) ==
  [op |-> op, res |-> res, str |-> str, ov |-> ov, what |-> what,
   ret |-> ret, num |-> num, arg |-> arg]

NoLog == [active |-> FALSE, vals |-> <<>>, err |-> FALSE, creatable |-> FALSE]

\* Nothing on the way to p forbids creating a file there: p names a
\* location, no ancestor of it is a regular file and it is no directory
Creatable(F, p) ==
  LET l == Loc(F, p)
  IN /\ l # NoLoc
     /\ l \notin F.dirs
     /\ \A k \in 0..(Len(l) - 1) : SubSeq(l, 1, k) \notin DOMAIN F.files

\* the append calls since the path was last absent, and whether one failed
LogAppend(what, res) ==
  IF ~exists(Cur, path)
    THEN [active |-> TRUE, vals |-> <<what>>, err |-> res # "ok",
          creatable |-> Creatable(Cur, path)]
  ELSE IF log.active
    THEN [log EXCEPT !.vals = Append(@, what), !.err = @ \/ res # "ok"]
  ELSE NoLog

\* the state after a call that ended as o
Apply(o) ==
  /\ dirs' = o.F.dirs
  /\ files' = o.F.files
  /\ noread' = o.F.noread
  /\ cwd' = o.F.cwd
  /\ path' = o.path

\* a call of a method that changes the filesystem or the path
Mutate(op, o, str, ov, what, num, newlog) ==
  /\ Apply(o)
  /\ last' = Call(op, o.res, str, ov, what, <<>>, num, 0)
  /\ log' = newlog
  /\ Tick
  /\ UNCHANGED opened

\* a call of a method that changes nothing
Query(op, res, ret, num, arg) ==
  /\ last' = Call(op, res, <<>>, FALSE, NoVal, ret, num, arg)
  /\ Tick
  /\ UNCHANGED <<dirs, files, noread, cwd, path, opened, log>>

Raised(chk, res) == IF chk = "pass" THEN res ELSE chk

D == <<"d">>
E == <<"e">>
Fn == <<"f">>
Gn == <<"g">>
HomeLoc == << <<"home">>, username >>

\* the paths handles are constructed from
InputPaths ==
  { <<"f">>, <<Slash, "d", Slash, "f">>,
    <<Tilde, Slash, "x", Slash, "y", Slash, "f">>, <<Tilde>>,
    <<Slash, "d", Slash, "f", Slash, "g">> }

\* the new names given to rename
NewNames == { <<"g">>, <<Tilde, Slash, "g">>, <<"e", Slash, "g">> }

\* the destinations given to move
Wheres == { <<Tilde>>, <<"g">>, <<Slash, "x", Slash, "g">> }

Values == { StrVal(<<"a">>), IntVal(10) }

\* what other processes create, and where the process changes directory to
ExtFiles == { <<D, Fn>>, <<D, Gn>>, <<D, <<Tilde>>, Gn>> }
ExtContent == <<"x", NL>>
ChdirTargets == { <<D>>, <<D, <<Tilde>> >> }



EmptyFiles == [k \in {} |-> <<>>]

\* File.__init__, in a filesystem holding /home/<username>, /d and a
\* directory named "~" in /d
Init ==
  /\ dirs = {Root, << <<"home">> >>, HomeLoc, <<D>>, <<D, <<Tilde>> >>}
  /\ files = EmptyFiles
  /\ noread = {}
  /\ cwd = <<D>>
  /\ path \in {fix_path(p) : p \in InputPaths}
  /\ opened = 0
  /\ last = Call("init", "ok", <<>>, FALSE, NoVal, <<>>, 0, 0)
  /\ log = NoLog
  /\ steps = 0

\* File.stat, and mtime, atime, ctime, uid, gid, mode, which read it
Stat == Query("stat", Raised(check_file(Cur, path), "ok"), <<>>, 0, 0)

\* File.size
Size == Query("size", "ok", <<>>, size(Cur, path), 0)

ReadOut(chk, sz) ==
  Query("read", Raised(chk, "ok"),
        IF chk = "pass" THEN fp_read(files[Loc(Cur, path)], sz) ELSE <<>>, 0, sz)

\* File.read(size): get_pointer, fp.read, fp.close
Read(sz) == ReadOut(check_file(Cur, path), sz)

\* File.copy, File.extract, File.send
Stub(op) == Query(op, Raised(check_file(Cur, path), "NotImplemented"), <<>>, 0, 0)

Delete == Mutate("delete", delete(Cur, path), <<>>, FALSE, NoVal, 0, NoLog)

Rename(new_name, ov) ==
  Mutate("rename", rename(Cur, path, new_name, ov), new_name, ov, NoVal, 0, NoLog)

Move(where, ov) ==
  Mutate("move", move(Cur, path, where, ov), where, ov, NoVal, 0, NoLog)

CreateStep(o, ov) ==
  Mutate("create", Out(o.res, o.F, path), <<>>, ov, NoVal, o.rec, NoLog)

Create(ov) == CreateStep(create(Cur, path, ov, 0), ov)

\* File.write; the log keeps what had been appended before, closed
Write(what) ==
  Mutate("write", write(Cur, path, what), <<>>, TRUE, what, 0,
         [log EXCEPT !.active = FALSE])

AppendStep(o, what) ==
  Mutate("append", o, <<>>, FALSE, what, 0, LogAppend(what, o.res))

AppendCall(what) ==
  /\ isfile(Cur, path) =>
       Len(files[Loc(Cur, path)]) + Len(Str(what)) + 1 <= MaxContent
  /\ AppendStep(append(Cur, path, what), what)

External(d, f, n, c) ==
  /\ Tick
  /\ dirs' = d
  /\ files' = f
  /\ noread' = n
  /\ cwd' = c
  /\ last' = Call("external", "ok", <<>>, FALSE, NoVal, <<>>, 0, 0)
  /\ log' = NoLog
  /\ UNCHANGED <<path, opened>>

\* another process removes a file
ExtRemove(l) ==
  /\ l \in DOMAIN files
  /\ External(dirs, DropFile(files, l), noread \ {l}, cwd)

\* another process changes a file's read permission
ExtChmod(l) ==
  /\ l \in DOMAIN files
  /\ External(dirs, files, IF l \in noread THEN noread \ {l} ELSE noread \cup {l}, cwd)

\* another process creates a file
ExtPut(l) ==
  /\ l \notin dirs /\ l \notin DOMAIN files /\ Parent(l) \in dirs
  /\ External(dirs, PutFile(files, l, ExtContent), noread, cwd)

\* os.chdir
ExtChdir(l) ==
  /\ l \in dirs /\ l # cwd
  /\ External(dirs, files, noread, l)

Next ==
  \/ Stat
  \/ Size
  \/ Read(-1)
  \/ \E op \in {"copy", "extract", "send"} : Stub(op)
  \/ Delete
  \/ \E n \in NewNames, ov \in BOOLEAN : Rename(n, ov)
  \/ \E w \in Wheres, ov \in BOOLEAN : Move(w, ov)
  \/ \E ov \in BOOLEAN : Create(ov)
  \/ \E v \in Values : Write(v)
  \/ \E v \in Values : AppendCall(v)
  \/ \E l \in DOMAIN files : ExtRemove(l)
  \/ \E l \in DOMAIN files : ExtChmod(l)
  \/ \E l \in ExtFiles : ExtPut(l)
  \/ \E l \in ChdirTargets : ExtChdir(l)

Spec == Init /\ [][Next]_vars


---------------------------------------------------------------------------
(* Reading a file line by line: a handle on /d/f, the file holding any of  *)
(* the contents of LineFiles.                                              *)

\* the texts of the lines, without terminator
LineTexts == { <<"a">>, <<>> }

RECURSIVE Terminated(_)
Terminated(texts) ==
  IF texts = <<>> THEN <<>> ELSE Head(texts) \o <<NL>> \o Terminated(Tail(texts))

\* lines a, empty, b, empty, c, each with its terminator
FiveLines == Terminated(<< <<"a">>, <<>>, <<"b">>, <<>>, <<"c">> >>)

\* every file of up to MaxLines lines, its last line with or without "\n"
LineFiles ==
  LET whole == { Terminated(t) : t \in UNION { [1..n -> LineTexts] : n \in 0..MaxLines } }
  IN whole \cup { Front(c) : c \in { w \in whole : Len(w) >= 2 /\ w[Len(w) - 1] # NL } }
           \cup { FiveLines }

LinePath == <<Slash, "d", Slash, "f">>

InitLines ==
  /\ dirs = {Root, <<D>>}
  /\ \E c \in LineFiles : files = PutFile(EmptyFiles, <<D, Fn>>, c)
  /\ noread = {}
  /\ cwd = <<D>>
  /\ path = fix_path(LinePath)
  /\ opened = 0
  /\ last = Call("init", "ok", <<>>, FALSE, NoVal, <<>>, 0, 0)
  /\ log = NoLog
  /\ steps = 0

\* a call that reads the file; left is whether it returns or raises with
\* its file object not closed
Reading(op, res, ret, num, arg, left) ==
  /\ last' = Call(op, res, <<>>, FALSE, NoVal, ret, num, arg)
  /\ opened' = IF left THEN opened + 1 ELSE opened
  /\ UNCHANGED <<dirs, files, noread, cwd, path, log, steps>>

\* File.total_lines: the generator runs to its end and closes fp
TotalLinesOut(chk) ==
  Reading("total_lines", Raised(chk, "ok"), <<>>,
          IF chk = "pass" THEN total_lines(Cur, path) ELSE 0, 0, FALSE)

TotalLines == TotalLinesOut(check_file(Cur, path))

EmptyLinesOut(chk) ==
  Reading("empty_lines", Raised(chk, "ok"), <<>>,
          IF chk = "pass" THEN empty_lines(Cur, path) ELSE 0, 0, FALSE)

EmptyLines == EmptyLinesOut(check_file(Cur, path))

NonEmptyLinesOut(chk) ==
  Reading("non_empty_lines", Raised(chk, "ok"), <<>>,
          IF chk = "pass" THEN non_empty_lines(Cur, path) ELSE 0, 0, FALSE)

NonEmptyLines == NonEmptyLinesOut(check_file(Cur, path))

\* whether get_line leaves its loop by break: the generator is then
\* suspended at its yield and fp.close() of __iter__ is never run
get_line_breaks(F, p, lno) ==
  lno >= 0 /\ lno <= total_lines(F, p) /\ get_line_stop(iter(F, p), lno) # 0

\* File.get_line.  A negative lno returns before the file is touched.  After
\* a break the file object is closed only when the abandoned generator is
\* collected, which the interpreter does at once or later.
GetLineOut(chk, lno) ==
  IF lno < 0 THEN Reading("get_line", "ok", <<>>, 0, lno, FALSE)
  ELSE IF chk # "pass" THEN Reading("get_line", chk, <<>>, 0, lno, FALSE)
  ELSE IF ~get_line_breaks(Cur, path, lno)
    THEN Reading("get_line", "ok", get_line(Cur, path, lno), 0, lno, FALSE)
  ELSE \/ Reading("get_line", "ok", get_line(Cur, path, lno), 0, lno, FALSE)
       \/ /\ opened < MaxOpen
          /\ Reading("get_line", "ok", get_line(Cur, path, lno), 0, lno, TRUE)

GetLine(lno) == GetLineOut(check_file(Cur, path), lno)

ReadSizeOut(chk, sz) ==
  Reading("read", Raised(chk, "ok"),
          IF chk = "pass" THEN fp_read(files[Loc(Cur, path)], sz) ELSE <<>>,
          0, sz, FALSE)

\* File.read(size)
ReadSize(sz) == ReadSizeOut(check_file(Cur, path), sz)

\* File.read(size) with a size that is no integer: fp.read raises TypeError
\* and fp.close() is skipped; the file object is closed when collected
ReadNonIntegerOut(chk) ==
  IF chk # "pass" THEN Reading("read", chk, <<>>, 0, 0, FALSE)
  ELSE \/ Reading("read", "TypeError", <<>>, 0, 0, FALSE)
       \/ /\ opened < MaxOpen
          /\ Reading("read", "TypeError", <<>>, 0, 0, TRUE)

ReadNonInteger == ReadNonIntegerOut(check_file(Cur, path))

\* the interpreter collects the abandoned file objects
Collect ==
  /\ opened > 0
  /\ opened' = 0
  /\ last' = Call("external", "ok", <<>>, FALSE, NoVal, <<>>, 0, 0)
  /\ UNCHANGED <<dirs, files, noread, cwd, path, log, steps>>

\* another process changes the file's read permission
LinesChmod ==
  /\ \E l \in DOMAIN files :
       noread' = IF l \in noread THEN noread \ {l} ELSE noread \cup {l}
  /\ last' = Call("external", "ok", <<>>, FALSE, NoVal, <<>>, 0, 0)
  /\ UNCHANGED <<dirs, files, cwd, path, opened, log, steps>>

NextLines ==
  \/ TotalLines
  \/ EmptyLines
  \/ NonEmptyLines
  \/ \E lno \in -1..(MaxLines + 1) : GetLine(lno)
  \/ \E sz \in {-1, 0, 1, 3} : ReadSize(sz)
  \/ ReadNonInteger
  \/ Collect
  \/ LinesChmod

SpecLines == InitLines /\ [][NextLines]_vars


---------------------------------------------------------------------------
(* Claims *)

\* a step of Spec: a call on the handle or a change from outside
Stepped == steps' = steps + 1

HandleLoc == Loc(Cur, path)
IsRegular == HandleLoc \in DOMAIN files
IsReadable == HandleLoc \notin noread

GuardedOps == {"stat", "read", "copy", "extract", "send", "delete", "rename", "move"}
GuardErrors == {"NotFound", "NotAccessible"}

\* C1: every guarded call (stat, read, copy, extract, send, delete, rename,
\* move) raises NotFound when the handle's path is not a regular file at the
\* moment of the call, otherwise NotAccessible when the file is not readable,
\* and changes nothing when it raises either; when both checks pass the body
\* runs: stat and read return (read the file's content), the stubs raise
\* NotImplemented, delete removes the file.
C1_Guard ==
  [][ (Stepped /\ last'.op \in GuardedOps) =>
        /\ ~IsRegular => last'.res = "NotFound"
        /\ (IsRegular /\ ~IsReadable) => last'.res = "NotAccessible"
        /\ (IsRegular /\ IsReadable) => last'.res \notin GuardErrors
        /\ last'.res \in GuardErrors =>
             UNCHANGED <<dirs, files, noread, cwd, path>>
        /\ (IsRegular /\ IsReadable) =>
             /\ last'.op = "stat" => last'.res = "ok"
             /\ last'.op = "read" =>
                  last'.res = "ok" /\ last'.ret = files[HandleLoc]
             /\ last'.op \in {"copy", "extract", "send"} =>
                  last'.res = "NotImplemented"
             /\ last'.op = "delete" =>
                  last'.res = "ok" /\ HandleLoc \notin DOMAIN files'
    ]_vars

\* a read is refused for a file the handle could read before: the file is
\* there, written through the handle, and another process took the permission
C1_Witness ==
  /\ last.op = "read" /\ last.res = "NotAccessible"
  /\ IsRegular /\ files[HandleLoc] = <<"a", NL>>

\* The destination of rename(str) and move(str): the name with its tilde
\* expanded; for move, the name inside the directory when it is one; and a
\* name without separator inside the handle's directory.
DestIn(w) == IF HasChar(w, Slash) THEN w ELSE join(directory_path(Cur, path), w)
DestString(op, str) ==
  DestIn(IF op = "move" /\ isdir(Cur, fix_path(str))
           THEN join(fix_path(str), name(path)) ELSE fix_path(str))

\* whether the call is made onto a regular file that is already there
OntoRegular(c) ==
  IF c.op = "create" THEN IsRegular
  ELSE /\ IsRegular /\ IsReadable
       /\ ~(~HasChar(fix_path(c.str), Slash) /\ directory_path_fails(Cur, path))
       /\ isfile(Cur, DestString(c.op, c.str))

\* C2: with overwrite policy false, create on an existing regular file, and
\* rename or move (the source passing the guard) onto an existing regular
\* file, fail with AlreadyExists and leave the files, the directories and the
\* handle's path unchanged; with overwrite policy true they do not raise
\* AlreadyExists.
C2_AlreadyExists ==
  [][ (Stepped /\ last'.op \in {"create", "rename", "move"} /\ OntoRegular(last')) =>
        IF last'.ov THEN last'.res # "AlreadyExists"
        ELSE /\ last'.res = "AlreadyExists"
             /\ UNCHANGED <<dirs, files, noread, path>>
    ]_vars

\* C3 as stated: every create call that does not fail with AlreadyExists
\* leaves an empty regular file at the handle's path, after at most one
\* recursive call.
C3_Original ==
  [][ (Stepped /\ last'.op = "create" /\ last'.res # "AlreadyExists") =>
        /\ HandleLoc \in DOMAIN files'
        /\ files'[HandleLoc] = <<>>
        /\ last'.num <= 1
    ]_vars

\* C3, amended: create fails with AlreadyExists exactly when the path is a
\* regular file and the overwrite policy is false; otherwise it is refused
\* by the operating system exactly when no file can be created at the path
\* (the path is a directory, a regular file lies on the way to it, or it is
\* relative and the working directory is gone); and every other call leaves
\* an empty regular file at the path, all its ancestors directories, every
\* other file as it was, after one recursive call when the parent directory
\* was missing and none when it was there.
C3_Create ==
  [][ (Stepped /\ last'.op = "create") =>
        /\ last'.res \in {"ok", "AlreadyExists", "OSError"}
        /\ last'.res = "AlreadyExists" <=> (IsRegular /\ ~last'.ov)
        /\ last'.res = "OSError" <=> ~Creatable(Cur, path)
        /\ path' = path
        /\ last'.res = "ok" =>
             /\ HandleLoc \in DOMAIN files' /\ files'[HandleLoc] = <<>>
             /\ \A k \in 0..(Len(HandleLoc) - 1) : SubSeq(HandleLoc, 1, k) \in dirs'
             /\ last'.num = IF Parent(HandleLoc) \in dirs THEN 0 ELSE 1
             /\ DOMAIN files' = DOMAIN files \cup {HandleLoc}
             /\ \A l \in DOMAIN files \ {HandleLoc} : files'[l] = files[l]
    ]_vars

\* create has made a chain of two missing directories, with one recursion
C3_Witness ==
  /\ last.op = "create" /\ last.res = "ok" /\ last.num = 1
  /\ path = HomeString \o <<Slash, "x", Slash, "y", Slash, "f">>
  /\ IsRegular /\ files[HandleLoc] = <<>>


\* C4: from every prior state in which the file is absent and can be
\* created, is empty, or holds earlier content, write(c) ends leaving
\* exactly str(c) and one newline as the file's content, and a read() that
\* follows it returns exactly that content (when the process may not read
\* the file, read raises NotAccessible and returns nothing).
C4_WriteRead ==
  [][ Stepped =>
        /\ (last'.op = "write" /\ Creatable(Cur, path)) => last'.res = "ok"
        /\ (last'.op = "write" /\ last'.res = "ok") =>
             /\ path' = path
             /\ HandleLoc \in DOMAIN files'
             /\ files'[HandleLoc] = Str(last'.what) \o <<NL>>
        /\ (last'.op = "read" /\ last.op = "write" /\ last.res = "ok") =>
             IF IsReadable
               THEN last'.res = "ok" /\ last'.ret = Str(last.what) \o <<NL>>
               ELSE last'.res = "NotAccessible"
    ]_vars

\* read returns "10\n" for write(10), which replaced what append had written
C4_Witness ==
  /\ last.op = "read" /\ last.res = "ok" /\ last.ret = <<"1", "0", NL>>
  /\ ~log.active /\ log.vals = <<StrVal(<<"a">>)>> /\ ~log.err

RECURSIVE Appended(_)
Appended(vals) ==
  IF vals = <<>> THEN <<>> ELSE Str(Head(vals)) \o <<NL>> \o Appended(Tail(vals))

\* the append calls since the path was absent raised nothing, and the file
\* holds, and read returns, what they wrote in call order
AppendsKept ==
  /\ ~log'.err
  /\ Loc(Cur', path') \in DOMAIN files'
  /\ files'[Loc(Cur', path')] = Appended(log'.vals)
  /\ last'.op = "read" => last'.res = "ok" /\ last'.ret = Appended(log'.vals)

\* an append call adds str(c) and a newline after what the file held
AppendAdds ==
  (last'.op = "append" /\ last'.res = "ok" /\ IsRegular) =>
     files'[HandleLoc] = files[HandleLoc] \o Str(last'.what) \o <<NL>>

\* C5 as stated: for every sequence of append calls on a handle whose path
\* does not exist at the first call, no call surfaces an error and read()
\* returns c1, newline, ... cn, newline in call order; an append never
\* truncates or reorders content already in the file.
C5_Original ==
  [][ Stepped => /\ log'.active => AppendsKept
                 /\ AppendAdds ]_vars

\* C5, amended: the same for a handle whose path does not exist at the first
\* call and can be created there (no regular file lies on the way to it,
\* and the working directory still exists when the path is relative).
C5_Append ==
  [][ Stepped => /\ (log'.active /\ log'.creatable) => AppendsKept
                 /\ AppendAdds ]_vars

\* two appends on an absent path, then a read returning both in call order
C5_Witness ==
  /\ log.active /\ log.creatable /\ log.vals = <<StrVal(<<"a">>), IntVal(10)>>
  /\ last.op = "read" /\ last.ret = <<"a", NL, "1", "0", NL>>

\* C6's destination: the new name with its tilde expanded; for move, the
\* current name inside the destination when that is a directory; and a name
\* without separator inside the handle's current directory
ExpectedDest(op, str) ==
  IF op = "move" /\ Loc(Cur, fix_path(str)) \in dirs
    THEN Loc(Cur, fix_path(str)) \o <<Last(HandleLoc)>>
  ELSE IF ~HasChar(fix_path(str), Slash)
    THEN Parent(HandleLoc) \o Split(fix_path(str), <<>>)
  ELSE Loc(Cur, fix_path(str))

\* C6: after every successful rename or move to a destination other than
\* the file's current location, the file's content is at the destination,
\* the old location is no regular file, and the handle's path names the
\* destination.
C6_Relocate ==
  [][ (Stepped /\ last'.op \in {"rename", "move"} /\ last'.res = "ok"
       /\ ExpectedDest(last'.op, last'.str) # HandleLoc) =>
        /\ ExpectedDest(last'.op, last'.str) \in DOMAIN files'
        /\ files'[ExpectedDest(last'.op, last'.str)] = files[HandleLoc]
        /\ HandleLoc \notin DOMAIN files'
        /\ Loc(Cur', path') = ExpectedDest(last'.op, last'.str)
    ]_vars

\* rename("g") has taken the file to g in the handle's own directory, which
\* is not the working directory
C6_Witness ==
  /\ last.op = "rename" /\ last.res = "ok" /\ last.str = <<"g">>
  /\ path = HomeString \o <<Slash, "x", Slash, "y", Slash, "g">>
  /\ IsRegular /\ files[HandleLoc] = <<"a", NL>>

\* C7: the handle's path contains no tilde, after construction and after
\* every rename and move, whatever the new names and the working directory.
C7_NoTilde == ~HasChar(path, Tilde)

-----
(* Claims on the reading of lines, checked of SpecLines *)

\* a line without its terminator
Stripped(line) ==
  IF line # <<>> /\ Last(line) = NL THEN Front(line) ELSE line

\* the lines produced by iterating the handle
Iterated == Lines(files[HandleLoc], <<>>)

EmptyOnes == Cardinality({i \in 1..Len(Iterated) : Stripped(Iterated[i]) = <<>>})

\* C8: for every readable file, total_lines is the number of lines produced
\* by iterating the handle, empty_lines is the number of those lines that
\* are empty once the terminator is stripped, and non_empty_lines is
\* total_lines minus empty_lines; for the file with lines a, empty, b,
\* empty, c these are 5, 2 and 3.
C8_LineCounts ==
  (last.res = "ok" /\ IsRegular) =>
     /\ last.op = "total_lines" => last.num = Len(Iterated)
     /\ last.op = "empty_lines" => last.num = EmptyOnes
     /\ last.op = "non_empty_lines" => last.num = Len(Iterated) - EmptyOnes
     /\ files[HandleLoc] = FiveLines =>
          /\ last.op = "total_lines" => last.num = 5
          /\ last.op = "empty_lines" => last.num = 2
          /\ last.op = "non_empty_lines" => last.num = 3

\* C9: for every readable file with n lines and every integer k, get_line(k)
\* returns empty content when k < 1 or k > n, and otherwise exactly the
\* k-th line of the iteration sequence, with its line terminator.
C9_GetLine ==
  (last.op = "get_line" /\ last.res = "ok" /\ IsRegular) =>
     IF last.arg < 1 \/ last.arg > Len(Iterated)
       THEN last.ret = <<>>
       ELSE last.ret = Iterated[last.arg]

\* get_line(3) of the file with lines a, empty, b, empty, c has returned b
\* and its terminator
C9_Witness ==
  /\ last.op = "get_line" /\ last.res = "ok" /\ last.arg = 3
  /\ IsRegular /\ files[HandleLoc] = FiveLines
  /\ last.ret = <<"b", NL>>

\* C10: every operation that opens a file object closes it before it
\* returns or raises, so that none is open when the next operation starts.
C10_Closed == opened = 0

====
